---- MODULE Spec2Model ----
(***************************************************************************)
(* Model of calamari_ocr/ocr/dataset/datareader/pagexml/reader.py:         *)
(*   - PageXMLReader's sequential write-back (prepare_store,               *)
(*     store_text_prediction, store, _store_page)            -> Spec       *)
(*   - PageXMLDatasetLoader's sample generators               -> SpecExtract*)
(*   - PageXMLReader.cutout (shape level)                     -> SpecCut    *)
(*   - PageXMLReader._load_sample                             -> SpecLoad   *)
(***************************************************************************)
EXTENDS Integers, Sequences, FiniteSets, TLC

VARIABLES
    params,         \* the PageXML dataclass instance (self.params)
    pages,          \* self.pages: page_id -> the parsed tree (TextLine -> TextEquiv children)
    _last_page_id,  \* self._last_page_id
    files,          \* storage: page_id -> text last written to <page_id><pred_extension>
    raised,         \* exception raised by the latest call, or None
    hist,           \* history of the write-back calls (observation only)
    gen,            \* a PageXMLDatasetLoader generator and its latest iteration
    cut,            \* the latest PageXMLReader.cutout call and its result
    ld              \* a PageXMLReader._load_sample generator

vars == <<params, pages, _last_page_id, files, raised, hist, gen, cut, ld>>

None == "<None>"

(***************************************************************************)
(* Bounds of the model.                                                    *)
(***************************************************************************)
MaxCalls == 3       \* store_text_prediction calls in one behaviour
MaxEntries == 2     \* TextEquiv children of a TextLine read by the loader
MaxCoord == 3       \* largest coordinate in a coordinate string (the smallest is -1)
MaxPasses == 2      \* lines of one page read by _load_sample

(***************************************************************************)
(* Python helpers.                                                         *)
(***************************************************************************)
\* truth value of `if self._last_page_id:` (None and "" are false)
Truthy(x) == x # None /\ x # ""

\* "{}".format(n) for the integers the model uses
ToStr(n) == CASE n = 0 -> "0" [] n = 1 -> "1" [] n = 2 -> "2" [] OTHER -> "?"

PageIds == {"book/p1", "book/p2", "book/p3"}
LineIds == {"l1", "l2"}
\* sample ids "<page_id>/<line id>", kept as pairs
SampleIds == PageIds \X LineIds
Sentences == {"a", "b"}

(***************************************************************************)
(* The parsed tree.  A TextLine is the sequence of its TextEquiv children; *)
(* ns says whether the element's tag lies in the document's namespace      *)
(* (what the 'ns:' paths match), index is the index attribute or None,     *)
(* unicode the sequence of Unicode children.                               *)
(***************************************************************************)
TE(idx, us) == [ns |-> TRUE, index |-> idx, unicode |-> us]
U(t) == [ns |-> TRUE, text |-> t]

\* the documents the reader is constructed on: every index is used at most once
\* per TextLine
InitialDocs ==
    { [l \in LineIds |-> IF l = "l1" THEN <<>> ELSE <<TE("0", <<U("old")>>)>>],
      [l \in LineIds |-> IF l = "l1" THEN <<TE("0", <<>>)>>
                         ELSE <<TE("1", <<U("one")>>), TE(None, <<U("plain")>>)>>] }

\* the dataclass fields of PageXML (and the inherited ones the reader uses)
ParamsOf(k) ==
    [ images |-> <<>>, xml_files |-> <<>>, gt_extension |-> ".xml", text_index |-> k,
      pad |-> None, pred_extension |-> ".pred.xml", skip_commented |-> FALSE,
      cut_mode |-> "POLYGON", skip_invalid |-> TRUE, non_existing_as_empty |-> FALSE,
      n_folds |-> 0 ]

\* line.find('./ns:TextEquiv[@index="k"]'): position of the first match, 0 for None
FindTextEquiv(line, k) ==
    LET m == {i \in 1..Len(line) : line[i].ns /\ line[i].index = ToStr(k)}
    IN IF m = {} THEN 0 ELSE CHOOSE i \in m : \A j \in m : i <= j

\* textequivxml.find("./ns:Unicode"): position of the first match, 0 for None
FindUnicode(us) ==
    LET m == {i \in 1..Len(us) : us[i].ns}
    IN IF m = {} THEN 0 ELSE CHOOSE i \in m : \A j \in m : i <= j

\* etree.SubElement(parent, "TextEquiv" / "Unicode"): a child appended last, its
\* tag given without a namespace
SubElementTextEquiv(line, k) ==
    Append(line, [ns |-> FALSE, index |-> ToStr(k), unicode |-> <<>>])
SubElementUnicode(us) == Append(us, [ns |-> FALSE, text |-> None])

\* store_text_prediction, the tree part: the TextLine after the call
AttachText(line, k, sentence) ==
    LET i     == FindTextEquiv(line, k)
        line1 == IF i = 0 THEN SubElementTextEquiv(line, k) ELSE line
        j     == IF i = 0 THEN Len(line1) ELSE i
        u     == FindUnicode(line1[j].unicode)
        us1   == IF u = 0 THEN SubElementUnicode(line1[j].unicode) ELSE line1[j].unicode
        v     == IF u = 0 THEN Len(us1) ELSE u
    IN [line1 EXCEPT ![j].unicode = [us1 EXCEPT ![v].text = sentence]]

\* etree.tounicode: the text form of a TextLine keeps each child's attributes and
\* text; the in-memory tag namespace of a child is not part of it
SerializeLine(line) ==
    [i \in 1..Len(line) |->
        [index |-> line[i].index,
         texts |-> [j \in 1..Len(line[i].unicode) |->
                        IF line[i].unicode[j].text = None THEN ""
                        ELSE line[i].unicode[j].text]]]
Serialize(page) == [l \in LineIds |-> SerializeLine(page[l])]

\* _store_page: (over)writes the file of page_id with the page's tree
\* (a file is <<>> while it does not exist, <<text>> once written)
_store_page(fs, pgs, page_id) == [fs EXCEPT ![page_id] = <<Serialize(pgs[page_id])>>]

\* store_text_prediction: is the previously tracked page written?
NeedsFlushEveryCall(last, page_id) == Truthy(last)
NeedsFlush(last, page_id) == last # page_id /\ Truthy(last)

\* store_text_prediction: the page tracked after the call
KeepTrackedPage(last, page_id) == IF Truthy(last) THEN last ELSE page_id
NextLastPageId(last, page_id) == IF last # page_id THEN page_id ELSE last

\* getattr on the params object
HasAttr(obj, name) == name \in DOMAIN obj

(***************************************************************************)
(* Idle values of the parts a specification does not exercise.             *)
(***************************************************************************)
GenIdle == [st |-> "idle"]
CutIdle == [st |-> "idle"]
LdIdle == [st |-> "idle"]
TrackerIdle ==
    /\ params = ParamsOf(0)
    /\ pages = [p \in PageIds |-> [l \in LineIds |-> <<>>]]
    /\ _last_page_id = None
    /\ files = [p \in PageIds |-> <<>>]
    /\ raised = None
    /\ hist = [op |-> "init"]
trackerVars == <<params, pages, _last_page_id, files, raised, hist>>

(***************************************************************************)
(* Write-back: PageXMLReader after __init__.                               *)
(***************************************************************************)
Init ==
    /\ \E k \in {0, 1} : params = ParamsOf(k)
    /\ \E d \in InitialDocs : pages = [p \in PageIds |-> d]
    /\ _last_page_id = None
    /\ files = [p \in PageIds |-> <<>>]
    /\ raised = None
    /\ hist = [ op |-> "init", ncalls |-> 0, doc0 |-> pages,
                lastPred |-> [s \in SampleIds |-> None],
                preds |-> [s \in SampleIds |-> {}],
                stream |-> <<>>, flushes |-> <<>>,
                tracked |-> None, wrote |-> {} ]
    /\ gen = GenIdle /\ cut = CutIdle /\ ld = LdIdle

prepare_store ==
    /\ _last_page_id' = None
    /\ raised' = None
    /\ hist' = [hist EXCEPT !.op = "prepare_store", !.stream = <<>>, !.flushes = <<>>,
                            !.tracked = _last_page_id, !.wrote = {}]
    /\ UNCHANGED <<params, pages, files, gen, cut, ld>>

store_text_prediction(sentence, sample_id) ==
    /\ hist.ncalls < MaxCalls
    /\ LET page_id == sample_id[1]
           line    == sample_id[2]
           pages1  == [pages EXCEPT ![page_id][line] =
                           AttachText(@, params.text_index, sentence)]
           flush   == NeedsFlush(_last_page_id, page_id)
           fresh   == hist.op = "store"
           stream1 == Append(IF fresh THEN <<>> ELSE hist.stream, page_id)
           fl0     == IF fresh THEN <<>> ELSE hist.flushes
       IN /\ pages' = pages1
          /\ files' = IF flush THEN _store_page(files, pages1, _last_page_id) ELSE files
          /\ _last_page_id' = NextLastPageId(_last_page_id, page_id)
          /\ raised' = None
          /\ hist' = [hist EXCEPT
                !.op = "store_text_prediction",
                !.ncalls = @ + 1,
                !.lastPred[sample_id] = sentence,
                !.preds[sample_id] = @ \cup {sentence},
                !.stream = stream1,
                !.flushes = IF flush
                            THEN Append(fl0, [page |-> _last_page_id, trig |-> Len(stream1)])
                            ELSE fl0,
                !.tracked = _last_page_id,
                !.wrote = IF flush THEN {_last_page_id} ELSE {}]
    /\ UNCHANGED <<params, gen, cut, ld>>

store ==
    /\ IF Truthy(_last_page_id)
       THEN /\ files' = _store_page(files, pages, _last_page_id)
            /\ _last_page_id' = None
            /\ raised' = None
            /\ hist' = [hist EXCEPT !.op = "store", !.tracked = _last_page_id,
                                    !.wrote = {_last_page_id},
                                    !.flushes = Append(@, [page |-> _last_page_id, trig |-> 0])]
       ELSE \* the loop over self.params.xmlfiles
            /\ raised' = IF ~HasAttr(params, "xmlfiles") THEN "AttributeError"
                         ELSE IF params["xmlfiles"] # <<>> THEN "TypeError" ELSE None
            /\ hist' = [hist EXCEPT !.op = "store", !.tracked = _last_page_id, !.wrote = {},
                                    !.stream = <<>>, !.flushes = <<>>]
            /\ UNCHANGED <<files, _last_page_id>>
    /\ UNCHANGED <<params, pages, gen, cut, ld>>

Next ==
    \/ prepare_store
    \/ \E sentence \in Sentences, sample_id \in SampleIds :
            store_text_prediction(sentence, sample_id)
    \/ store

Spec == Init /\ [][Next]_vars

(***************************************************************************)
(* Sample extraction: PageXMLDatasetLoader.load and its two generators.    *)
(* A generator is advanced one TextLine at a time; the TextLine it meets   *)
(* is drawn from the bounded set TextLines.                                *)
(***************************************************************************)
Modes == {"TRAINING", "EVALUATION", "PREDICTION", "TARGETS"}
INPUT_PROCESSOR == {"TRAINING", "EVALUATION", "PREDICTION"}
TARGETS_PROCESSOR == {"TRAINING", "EVALUATION", "TARGETS"}

Loaders ==
    [ mode : Modes, _non_existing_as_empty : BOOLEAN, text_index : {0, 1},
      skip_invalid : BOOLEAN, skip_commented : BOOLEAN ]

\* TextEquiv children as parsed from a file: all in the document namespace, the
\* Unicode child missing, empty (text None) or holding a string
ParsedEntries ==
    { TE(idx, us) : idx \in {None, "0", "1"},
                    us \in {<<>>, <<U(None)>>, <<U("x")>>, <<U("y")>>} }
RECURSIVE SeqsUpTo(_, _)
SeqsUpTo(S, n) ==
    IF n = 0 THEN {<<>>}
    ELSE LET shorter == SeqsUpTo(S, n - 1)
         IN shorter \cup {Append(q, e) : q \in {x \in shorter : Len(x) = n - 1}, e \in S}
\* comments: the 'comments' attribute, None when the TextLine has none
TextLines == [comments : {None, "note"}, entries : SeqsUpTo(ParsedEntries, MaxEntries)]

\* textline.findall('./ns:TextEquiv[@index="k"]'), else the TextEquivs without index
IsIndexed(e, k) == e.ns /\ e.index = ToStr(k)
HasNoIndex(e) == e.ns /\ e.index = None
SelectTextEquivsAnyFallback(entries, k) ==
    LET AtK(e) == IsIndexed(e, k)
        InNs(e) == e.ns
    IN IF SelectSeq(entries, AtK) # <<>> THEN SelectSeq(entries, AtK)
       ELSE SelectSeq(entries, InNs)
SelectTextEquivs(entries, k) ==
    LET AtK(e) == IsIndexed(e, k)
    IN IF SelectSeq(entries, AtK) # <<>> THEN SelectSeq(entries, AtK)
       ELSE SelectSeq(entries, HasNoIndex)

\* the text of the first selected TextEquiv: "" for a missing or empty Unicode,
\* None when nothing was selected
TextOfSelection(tequivs) ==
    IF tequivs # <<>>
    THEN LET uc == FindUnicode(tequivs[1].unicode)
         IN IF uc = 0 THEN ""
            ELSE IF tequivs[1].unicode[uc].text = None THEN ""
            ELSE tequivs[1].unicode[uc].text
    ELSE None

\* what `if text is None:` does
MissingPolicyEmptyFirst(loader) ==
    IF loader._non_existing_as_empty THEN "empty"
    ELSE IF loader.skip_invalid THEN "continue" ELSE "raise"
MissingPolicy(loader) ==
    IF loader.skip_invalid THEN "continue"
    ELSE IF loader._non_existing_as_empty THEN "empty" ELSE "raise"

\* the modes in which a line with empty text is dropped
EmptySkipModesTrainingOnly == {"TRAINING"}
EmptySkipModes == {"TRAINING", "EVALUATION"}

\* `self.skip_commented and len(textline.attrib.get("comments", ""))`
SkippedAsCommented(loader, textline) ==
    loader.skip_commented /\ (IF textline.comments = None THEN "" ELSE textline.comments) # ""

Unset == "<unset>"

\* one pass of the loop of _samples_gt_from_book over textline
GtPass(loader, textline) ==
    LET tequivs == SelectTextEquivs(textline.entries, loader.text_index)
        raw     == TextOfSelection(tequivs)
        text    == IF raw = None /\ MissingPolicy(loader) = "empty" THEN "" ELSE raw
        base    == [textline |-> textline, tequivs |-> tequivs, raw |-> Unset, text |-> Unset,
                    yielded |-> <<>>, outcome |-> Unset]
    IN IF SkippedAsCommented(loader, textline)
       THEN [base EXCEPT !.outcome = "continue_commented"]
       ELSE IF raw = None /\ MissingPolicy(loader) = "continue"
       THEN [base EXCEPT !.raw = raw, !.outcome = "continue_invalid"]
       ELSE IF raw = None /\ MissingPolicy(loader) = "raise"
       THEN [base EXCEPT !.raw = raw, !.outcome = "raise"]
       ELSE IF loader.mode \in EmptySkipModes /\ text = ""
       THEN [base EXCEPT !.raw = raw, !.text = text, !.outcome = "continue_empty"]
       ELSE [base EXCEPT !.raw = raw, !.text = text, !.outcome = "yield",
                         !.yielded = <<[text |-> text]>>]

\* one pass of the loop of _samples_from_book over textline
PlainPass(loader, textline) ==
    LET base == [textline |-> textline, tequivs |-> <<>>, raw |-> Unset, text |-> Unset,
                 yielded |-> <<>>, outcome |-> Unset]
    IN IF SkippedAsCommented(loader, textline)
       THEN [base EXCEPT !.outcome = "continue_commented"]
       ELSE [base EXCEPT !.outcome = "yield", !.yielded = <<[text |-> None]>>]

InitExtract ==
    /\ TrackerIdle
    /\ \E loader \in Loaders : gen = [st |-> "created", loader |-> loader]
    /\ cut = CutIdle /\ ld = LdIdle

\* load(img, xml): the file check and the choice of the generator
load(xml_exists) ==
    /\ gen.st = "created"
    /\ gen' = IF ~xml_exists
              THEN [st |-> IF gen.loader.skip_invalid THEN "exhausted" ELSE "raised",
                    loader |-> gen.loader, kind |-> "none"]
              ELSE [st |-> "running", loader |-> gen.loader,
                    kind |-> IF gen.loader.mode \in TARGETS_PROCESSOR THEN "gt" ELSE "plain"]
    /\ UNCHANGED <<trackerVars, cut, ld>>

\* the generator's loop body runs on the next TextLine of the document; it records
\* the pass and st says how it ended (yielded, continued, raised)
_samples_gt_from_book ==
    /\ gen.st = "running" /\ gen.kind = "gt"
    /\ \E textline \in TextLines :
       LET it == GtPass(gen.loader, textline)
       IN gen' = [st |-> IF it.outcome = "raise" THEN "raised"
                         ELSE IF it.outcome = "yield" THEN "yielded" ELSE "continued",
                  loader |-> gen.loader, kind |-> "gt", it |-> it]
    /\ UNCHANGED <<trackerVars, cut, ld>>

_samples_from_book ==
    /\ gen.st = "running" /\ gen.kind = "plain"
    /\ \E textline \in TextLines :
       LET it == PlainPass(gen.loader, textline)
       IN gen' = [st |-> IF it.outcome = "yield" THEN "yielded" ELSE "continued",
                  loader |-> gen.loader, kind |-> "plain", it |-> it]
    /\ UNCHANGED <<trackerVars, cut, ld>>

\* the loop goes on: after a continue, or when the consumer asks for the next sample
next_textline ==
    /\ gen.st \in {"yielded", "continued"}
    /\ gen' = [st |-> "running", loader |-> gen.loader, kind |-> gen.kind]
    /\ UNCHANGED <<trackerVars, cut, ld>>

\* no TextLine is left: the generator returns
StopIteration ==
    /\ gen.st = "running"
    /\ gen' = [st |-> "exhausted", loader |-> gen.loader, kind |-> gen.kind]
    /\ UNCHANGED <<trackerVars, cut, ld>>

NextExtract ==
    \/ \E xml_exists \in BOOLEAN : load(xml_exists)
    \/ _samples_gt_from_book
    \/ _samples_from_book
    \/ next_textline
    \/ StopIteration

SpecExtract == InitExtract /\ [][NextExtract]_vars

(***************************************************************************)
(* PageXMLReader.cutout, on image shapes.  An image is its shape <<rows,   *)
(* columns>>; pixel values are not modelled.  A coordinate string is the   *)
(* sequence of its "c0,c1" pairs, a scale the fraction <<num, den>>.        *)
(***************************************************************************)
CutModes == {"BOX", "POLYGON", "MBR"}
Points == (-1..MaxCoord) \X (-1..MaxCoord)
\* Coordinate strings of no, one and two points: the shapes cutout computes depend
\* on the smallest and largest coordinate per axis only, and two points (the
\* corners) give every pair of these.
CoordStrings == {<<>>} \cup {<<p>> : p \in Points} \cup {<<p, q>> : p \in Points, q \in Points}
Scales == {<<1, 1>>, <<2, 3>>, <<4, 3>>}
PageShape == <<3, 4>>

\* the quotient n/d (d > 0) as an integer: the nearest one (halves away from
\* zero), and int(x), which truncates toward zero
IntOfRounded(n, d) == IF n >= 0 THEN (2 * n + d) \div (2 * d) ELSE -((2 * (-n) + d) \div (2 * d))
IntOf(n, d) == IF n >= 0 THEN n \div d ELSE -((-n) \div d)

\* a scaled coordinate: rounded, and as the code computes it, int(scale * int(c))
ScaleCoordRounded(c, scale) == IntOfRounded(scale[1] * c, scale[2])
ScaleCoord(c, scale) == IntOf(scale[1] * c, scale[2])

\* length of a[start:stop] for an axis of length n (numpy basic slicing)
SliceLenExclusive(start, stop, n) ==
    LET Clip(i) == IF i < 0 THEN (IF i + n < 0 THEN 0 ELSE i + n) ELSE (IF i > n THEN n ELSE i)
    IN IF Clip(stop - 1) > Clip(start) THEN Clip(stop - 1) - Clip(start) ELSE 0
SliceLen(start, stop, n) ==
    LET Clip(i) == IF i < 0 THEN (IF i + n < 0 THEN 0 ELSE i + n) ELSE (IF i > n THEN n ELSE i)
    IN IF Clip(stop) > Clip(start) THEN Clip(stop) - Clip(start) ELSE 0

MaxOf(S) == CHOOSE i \in S : \A j \in S : j <= i
MinOf(S) == CHOOSE i \in S : \A j \in S : i <= j

\* An optional number (angle, cval) or list (pad) is <<>> for Python's None and
\* <<v>> for the value v.
NoValue == <<>>
Some(v) == <<v>>

\* the angle the cut is rotated by: `guess` stands for the angle derived from
\* cv.minAreaRect when angle is None and max_auto_angle > 0
AngleUsed(angle, max_auto_angle, guess) ==
    IF angle = NoValue THEN (IF max_auto_angle > 0 THEN guess ELSE 0) ELSE angle[1]

\* cutout(pageimg, coordstring, mode, angle, max_auto_angle, cval, scale): the
\* exception raised or the shape returned, the shape of the first crop, and the
\* processing steps carried out.  The shape of a rotated cut is not modelled
\* (rotated |-> TRUE, shape <<>>).
Cutout(pageimg, coordstring, mode, angle, max_auto_angle, cval, scale, guess) ==
    LET coords == [i \in 1..Len(coordstring) |->
                        <<ScaleCoord(coordstring[i][2], scale),
                          ScaleCoord(coordstring[i][1], scale)>>]
        none   == [exc |-> None, shape |-> <<>>, crop |-> <<>>, steps |-> {}, rotated |-> FALSE]
    IN IF coords = <<>>
       THEN \* np.amax / np.amin of an array without elements
            [none EXCEPT !.exc = "ValueError"]
       ELSE
        LET maxX == MaxOf({coords[i][1] : i \in 1..Len(coords)})
            maxY == MaxOf({coords[i][2] : i \in 1..Len(coords)})
            minX == MinOf({coords[i][1] : i \in 1..Len(coords)})
            minY == MinOf({coords[i][2] : i \in 1..Len(coords)})
            crop == <<SliceLen(minX, maxX + 1, pageimg[1]), SliceLen(minY, maxY + 1, pageimg[2])>>
            a    == AngleUsed(angle, max_auto_angle, guess)
            steps == (IF cval = NoValue THEN {"cval"} ELSE {})
                     \cup (IF a # 0 THEN {"rotate"} ELSE {})
                     \cup (IF mode = "MBR" THEN {"mbr"} ELSE {})
                     \cup (IF mode \in {"POLYGON", "MBR"} THEN {"mask"} ELSE {})
        IN IF crop[1] * crop[2] = 0
           THEN [none EXCEPT !.shape = crop, !.crop = crop]
           ELSE IF a # 0
           THEN [none EXCEPT !.crop = crop, !.steps = steps, !.rotated = TRUE]
           ELSE \* minX, minY = 0, 0 and maxX, maxY swapped: cut[0:maxX-minX+1, 0:maxY-minY+1]
                [none EXCEPT !.crop = crop, !.steps = steps,
                             !.shape = <<SliceLen(0, maxX - minX + 1, crop[1]),
                                         SliceLen(0, maxY - minY + 1, crop[2])>>]

\* max_auto_angle is read only when angle is None
CutArgs ==
    { x \in [ coordstring : CoordStrings, mode : CutModes,
              angle : {Some(0), Some(90), NoValue}, max_auto_angle : {0, 45},
              cval : {NoValue, Some(255)}, scale : Scales ] :
        x.angle # NoValue => x.max_auto_angle = 0 }

InitCut ==
    /\ TrackerIdle /\ gen = GenIdle /\ ld = LdIdle
    /\ cut = CutIdle

cutout ==
    /\ cut.st = "idle"
    /\ \E args \in CutArgs, guess \in {0, 30} :
        /\ (args.angle = NoValue /\ args.max_auto_angle > 0) \/ guess = 0
        /\ cut' = [st |-> "done", pageimg |-> PageShape, args |-> args,
                   res |-> Cutout(PageShape, args.coordstring, args.mode, args.angle,
                                  args.max_auto_angle, args.cval, args.scale, guess)]
    /\ UNCHANGED <<trackerVars, gen, ld>>

\* the caller takes the result (or the exception); the next call can be made
cutout_return ==
    /\ cut.st = "done"
    /\ cut' = CutIdle
    /\ UNCHANGED <<trackerVars, gen, ld>>

NextCut == cutout \/ cutout_return

SpecCut == InitCut /\ [][NextCut]_vars

(***************************************************************************)
(* PageXMLReader._load_sample: one page, its lines read one by one.        *)
(***************************************************************************)
\* params.pad: None, or the list handed to np.pad as pad_width
Pads == {NoValue, Some(<<>>), Some(<<1>>), Some(<<1, 2>>)}
\* `if self.params.pad:`
PadSet(pad) == pad # NoValue /\ pad[1] # <<>>
\* np.pad(img, pad_width): a list of one number pads every side by it, a list of
\* two numbers pads (before, after) on every axis
PadBefore(pad) == pad[1][1]
PadAfter(pad) == IF Len(pad[1]) = 1 THEN pad[1][1] ELSE pad[1][2]
NpPad(shape, pad) ==
    <<shape[1] + PadBefore(pad) + PadAfter(pad), shape[2] + PadBefore(pad) + PadAfter(pad)>>

\* the samples loader.load yields for the page (the fields _load_sample reads)
LoadedSamples ==
    [ coords : {<<>>, <<<<1, 1>>>>, <<<<0, 0>>, <<2, 1>>>>, <<<<1, 0>>, <<2, 2>>>>},
      img_width : {4, 6}, orientation : {0, 90, 360} ]

\* `orientation if orientation and orientation % 360 != 0 else 0`
AngleOfOrientation(orientation) ==
    IF orientation # 0 /\ orientation % 360 # 0 THEN orientation ELSE 0

\* the image _load_sample holds after a line was cut: np.pad is applied to img
PageAfterLine(img, pad) == IF PadSet(pad) THEN NpPad(img, pad) ELSE img

\* the line image yielded for a cut: line_img as cutout returned it
LineImage(res, pad) == res

InitLoad ==
    /\ TrackerIdle /\ gen = GenIdle /\ cut = CutIdle
    /\ \E mode \in Modes, text_only \in BOOLEAN, pad \in Pads, cut_mode \in CutModes :
        ld = [ st |-> "running", mode |-> mode, text_only |-> text_only, pad |-> pad,
               cut_mode |-> cut_mode, n |-> 0,
               \* img = self._load_image(image_path) in the modes that read images
               img |-> IF mode \in INPUT_PROCESSOR THEN PageShape ELSE <<>>,
               loaded |-> IF mode \in INPUT_PROCESSOR THEN PageShape ELSE <<>> ]

\* one pass of the loop of _load_sample
_load_sample ==
    /\ ld.st = "running" /\ ld.n < MaxPasses
    /\ \E sample \in LoadedSamples :
        IF ~ld.text_only /\ ld.mode \in INPUT_PROCESSOR
        THEN LET lx  == ld.img[2]
                 res == Cutout(ld.img, sample.coords, ld.cut_mode,
                               Some(AngleOfOrientation(sample.orientation)), 0, NoValue,
                               <<lx, sample.img_width>>, 0)
             IN IF res.exc # None
                THEN ld' = [ld EXCEPT !.st = "raised", !.n = @ + 1]
                ELSE ld' = [ld EXCEPT !.st = "yielded", !.n = @ + 1,
                                      !.img = PageAfterLine(ld.img, ld.pad)]
                            @@ [it |-> [sample |-> sample, cut_from |-> ld.img,
                                        scale |-> <<lx, sample.img_width>>, cutres |-> res,
                                        line_img |-> <<LineImage(res, ld.pad)>>]]
        ELSE ld' = [ld EXCEPT !.st = "yielded", !.n = @ + 1]
                    @@ [it |-> [sample |-> sample, cut_from |-> <<>>, scale |-> <<>>,
                                cutres |-> <<>>, line_img |-> <<>>]]
    /\ UNCHANGED <<trackerVars, gen, cut>>

\* the consumer asks for the next sample
load_next ==
    /\ ld.st = "yielded"
    /\ ld' = [f \in DOMAIN ld \ {"it"} |-> IF f = "st" THEN "running" ELSE ld[f]]
    /\ UNCHANGED <<trackerVars, gen, cut>>

NextLoad == _load_sample \/ load_next

SpecLoad == InitLoad /\ [][NextLoad]_vars

(***************************************************************************)
(* Properties of the write-back.                                           *)
(***************************************************************************)
Range(s) == {s[i] : i \in 1..Len(s)}

\* the pages of a stream arrive grouped contiguously
Grouped(s) ==
    \A i, j, k \in 1..Len(s) : (i < j /\ j < k /\ s[i] = s[k]) => s[j] = s[i]

\* P1..Pk: the page of each maximal run of equal pages
RECURSIVE Runs(_)
Runs(s) ==
    IF s = <<>> THEN <<>>
    ELSE LET r == Runs(SubSeq(s, 1, Len(s) - 1))
         IN IF Len(s) > 1 /\ s[Len(s) - 1] = s[Len(s)] THEN r ELSE Append(r, s[Len(s)])

FirstIndex(s, p) == CHOOSE i \in 1..Len(s) : s[i] = p /\ \A j \in 1..(i - 1) : s[j] # p
LastIndex(s, p) == CHOOSE i \in 1..Len(s) : s[i] = p /\ \A j \in (i + 1)..Len(s) : s[j] # p

TextsOf(fileLine) ==
    {fileLine[i].texts[j] : <<i, j>> \in
        {x \in (1..Len(fileLine)) \X (1..2 * MaxCalls + 2) : x[2] <= Len(fileLine[x[1]].texts)}}

\* The file of page p holds, for every line of p, the (latest) text predicted for
\* it in an entry at text_index, and nothing but the document's own texts and
\* the texts predicted for that line; a line never predicted is as in the document.
ContentOK(p) ==
    /\ files[p] # <<>>
    /\ \A l \in LineIds :
        LET f == files[p][1][l]
            s == <<p, l>>
            own == {IF t = None THEN "" ELSE t : t \in
                      {hist.doc0[p][l][i].unicode[j].text : <<i, j>> \in
                         {x \in (1..Len(hist.doc0[p][l])) \X (1..2) :
                              x[2] <= Len(hist.doc0[p][l][x[1]].unicode)}}}
        IN /\ hist.lastPred[s] = None =>
                /\ Len(f) = Len(hist.doc0[p][l])
                /\ \A i \in 1..Len(f) : f[i].index = hist.doc0[p][l][i].index
                /\ TextsOf(f) = own
           /\ hist.lastPred[s] # None =>
                \E i \in 1..Len(f) :
                    /\ f[i].index = ToStr(params.text_index)
                    /\ \E j \in 1..Len(f[i].texts) : f[i].texts[j] = hist.lastPred[s]
           /\ TextsOf(f) \subseteq own \cup hist.preds[s]

\* C1: after a stream of store_text_prediction calls grouped contiguously by page
\* (pages P1..Pk) and then store(), every page was written exactly once, in the
\* order P1..Pk; Pi (i<k) was written by the first prediction of P(i+1), Pk by
\* store(); and the file of Pi holds the texts predicted for Pi's lines and no
\* text predicted for another page.
C1_GroupedStreamFlushesEachPageOnce ==
    (hist.op = "store" /\ hist.stream # <<>> /\ Grouped(hist.stream)) =>
        LET P == Runs(hist.stream)
        IN /\ raised = None
           /\ Len(hist.flushes) = Len(P)
           /\ \A i \in 1..Len(P) :
                /\ hist.flushes[i].page = P[i]
                /\ i < Len(P) => hist.flushes[i].trig = FirstIndex(hist.stream, P[i + 1])
                /\ i = Len(P) => hist.flushes[i].trig = 0
                /\ ContentOK(P[i])

\* a grouped stream over two pages, the first with both of its lines predicted,
\* has been stored
C1_Witness ==
    /\ hist.op = "store" /\ raised = None
    /\ Len(hist.stream) = 3 /\ Grouped(hist.stream) /\ Len(Runs(hist.stream)) = 2
    /\ hist.stream[1] = hist.stream[2]
    /\ \A l \in LineIds : hist.lastPred[<<hist.stream[1], l>>] # None
    /\ Len(hist.flushes) = 2

\* C2: once a line was predicted (one or more times), its element holds exactly
\* one TextEquiv with index = text_index, that one has exactly one Unicode child,
\* whose text is the sentence predicted last; the other entries are as they were.
C2_ExactlyOneEntryAtTextIndex ==
    \A s \in SampleIds :
        hist.lastPred[s] # None =>
            LET line == pages[s[1]][s[2]]
                was  == hist.doc0[s[1]][s[2]]
                k    == ToStr(params.text_index)
                at   == {i \in 1..Len(line) : line[i].index = k}
                Other(e) == e.index # k
            IN /\ Cardinality(at) = 1
               /\ \A i \in at : /\ Len(line[i].unicode) = 1
                                /\ line[i].unicode[1].text = hist.lastPred[s]
               /\ SelectSeq(line, Other) = SelectSeq(was, Other)

\* C3: store() completes without raising from every tracker state, writes exactly
\* the tracked page (none when no page is tracked) and leaves _last_page_id None.
C3_StoreWorksFromEveryState ==
    hist.op = "store" =>
        /\ raised = None
        /\ _last_page_id = None
        /\ hist.wrote = IF hist.tracked # None THEN {hist.tracked} ELSE {}

\* C10: after any stream of store_text_prediction calls (pages in any order) and
\* then store(), every page of the stream was written at least once, its last
\* write came after its last prediction was attached, and its file holds the
\* texts predicted for it; only pages of the stream were written.
C10_NoPredictionLostWhenInterleaved ==
    (hist.op = "store" /\ hist.stream # <<>>) =>
        /\ raised = None
        /\ \A i \in 1..Len(hist.flushes) : hist.flushes[i].page \in Range(hist.stream)
        /\ \A p \in Range(hist.stream) :
            LET at == {i \in 1..Len(hist.flushes) : hist.flushes[i].page = p}
            IN /\ at # {}
               /\ LET i == CHOOSE x \in at : \A y \in at : y <= x
                  IN hist.flushes[i].trig = 0
                        \/ hist.flushes[i].trig > LastIndex(hist.stream, p)
               /\ ContentOK(p)

\* an interleaved stream (p, q, p) has been stored: p was written twice
C10_Witness ==
    /\ hist.op = "store" /\ raised = None
    /\ Len(hist.stream) = 3 /\ ~Grouped(hist.stream)
    /\ Cardinality({i \in 1..Len(hist.flushes) : hist.flushes[i].page = hist.stream[1]}) = 2

(***************************************************************************)
(* Properties of the sample extraction.                                    *)
(***************************************************************************)
\* a pass of _samples_gt_from_book has just ended
GtDone == gen.st \in {"yielded", "continued", "raised"} /\ gen.kind = "gt"

\* the text an entry carries: that of its Unicode child, "" when the child is
\* empty or missing
EntryText(e) ==
    IF e.unicode = <<>> \/ e.unicode[1].text = None THEN "" ELSE e.unicode[1].text

\* the entry the selection rule names, as <<entry>>, or <<>> for none
ChosenEntry(entries, k) ==
    LET atK   == {i \in 1..Len(entries) : entries[i].index = ToStr(k)}
        plain == {i \in 1..Len(entries) : entries[i].index = None}
    IN IF atK # {} THEN <<entries[MinOf(atK)]>>
       ELSE IF plain # {} THEN <<entries[MinOf(plain)]>>
       ELSE <<>>
ResolvedText(entries, k) ==
    IF ChosenEntry(entries, k) = <<>> THEN None ELSE EntryText(ChosenEntry(entries, k)[1])

CommentedOut == gen.loader.skip_commented /\ gen.it.textline.comments \notin {None, ""}
Omitted == gen.it.yielded = <<>> /\ gen.it.outcome # "raise"

\* C6 as stated: in a ground-truth mode, for every TextLine with no transcription
\* selected: skip_invalid omits the line whatever non_existing_as_empty is; else
\* non_existing_as_empty makes its text ""; else the extraction raises.  A line
\* with a transcription is untouched by the two options.
C6_MissingTextPolicyEveryLine ==
    GtDone =>
        LET absent == gen.it.tequivs = <<>>
            l == gen.loader
        IN /\ (absent /\ l.skip_invalid) => Omitted
           /\ (absent /\ ~l.skip_invalid /\ l._non_existing_as_empty) => gen.it.text = ""
           /\ (absent /\ ~l.skip_invalid /\ ~l._non_existing_as_empty) =>
                    gen.it.outcome = "raise"
           /\ ~absent =>
                /\ gen.it.outcome \notin {"continue_invalid", "raise"}
                /\ gen.it.text # Unset =>
                        gen.it.text = ResolvedText(gen.it.textline.entries, l.text_index)

\* C6 amended: the same, for every TextLine that skip_commented does not skip
\* (a skipped one is omitted before its text is looked at, and never raises).
C6_MissingTextPolicy ==
    GtDone =>
        LET absent == gen.it.tequivs = <<>>
            l == gen.loader
        IN /\ CommentedOut => Omitted
           /\ (~CommentedOut /\ absent /\ l.skip_invalid) =>
                    gen.it.outcome = "continue_invalid" /\ Omitted
           /\ (~CommentedOut /\ absent /\ ~l.skip_invalid /\ l._non_existing_as_empty) =>
                    gen.it.text = ""
           /\ (~CommentedOut /\ absent /\ ~l.skip_invalid /\ ~l._non_existing_as_empty) =>
                    gen.it.outcome = "raise"
           /\ (~CommentedOut /\ ~absent) =>
                /\ gen.it.outcome \notin {"continue_invalid", "raise"}
                /\ gen.it.text = ResolvedText(gen.it.textline.entries, l.text_index)

\* a line without transcription got the text "" through non_existing_as_empty
C6_Witness ==
    /\ GtDone /\ gen.it.tequivs = <<>> /\ gen.it.textline.entries # <<>>
    /\ ~gen.loader.skip_invalid /\ gen.loader._non_existing_as_empty
    /\ gen.it.text = "" /\ gen.it.outcome = "yield"

\* C7: the entry selected is the first one whose index equals text_index, else
\* the first one without index, else none; the text read is that entry's text
\* (None for none), never the text of an entry with another index.
C7_SelectionByTextIndex ==
    GtDone =>
        LET chosen == ChosenEntry(gen.it.textline.entries, gen.loader.text_index)
        IN /\ (gen.it.tequivs = <<>>) <=> (chosen = <<>>)
           /\ chosen # <<>> => gen.it.tequivs[1] = chosen[1]
           /\ gen.it.outcome # "continue_commented" =>
                gen.it.raw = ResolvedText(gen.it.textline.entries, gen.loader.text_index)

\* entries [{index:1, text:"x"}] read with text_index = 0 gave None
C7_Witness ==
    /\ GtDone /\ gen.loader.text_index = 0
    /\ gen.it.textline.entries = <<TE("1", <<U("x")>>)>>
    /\ gen.it.raw = None

\* the text a line resolves to is "": its selected entry is empty, or it has none
\* and non_existing_as_empty replaces it
ResolvesToEmpty ==
    LET r == ResolvedText(gen.it.textline.entries, gen.loader.text_index)
    IN r = "" \/ (r = None /\ ~gen.loader.skip_invalid /\ gen.loader._non_existing_as_empty)

\* C9 as stated: in TRAINING and EVALUATION no yielded sample has "" or None as
\* text and a line resolving to "" is omitted; in TARGETS mode such a line is
\* yielded with text "".
C9_NoEmptyTextInTrainingEveryLine ==
    GtDone =>
        /\ gen.loader.mode \in {"TRAINING", "EVALUATION"} =>
            /\ gen.it.yielded # <<>> => gen.it.yielded[1].text \notin {"", None}
            /\ ResolvesToEmpty => Omitted
        /\ (gen.loader.mode = "TARGETS" /\ ResolvesToEmpty) =>
                gen.it.yielded = <<[text |-> ""]>>

\* C9 amended: in TARGETS mode a line resolving to "" is yielded with text ""
\* unless skip_commented skips it.
C9_NoEmptyTextInTraining ==
    GtDone =>
        /\ gen.loader.mode \in {"TRAINING", "EVALUATION"} =>
            /\ gen.it.yielded # <<>> => gen.it.yielded[1].text \notin {"", None}
            /\ ResolvesToEmpty => Omitted
        /\ (gen.loader.mode = "TARGETS" /\ ResolvesToEmpty /\ ~CommentedOut) =>
                gen.it.yielded = <<[text |-> ""]>>

\* in EVALUATION mode a missing transcription was replaced by "" and the line dropped
C9_Witness ==
    /\ GtDone /\ gen.loader.mode = "EVALUATION"
    /\ gen.it.tequivs = <<>> /\ gen.it.text = "" /\ gen.it.outcome = "continue_empty"

(***************************************************************************)
(* Properties of cutout and _load_sample.                                  *)
(***************************************************************************)
Abs(x) == IF x < 0 THEN -x ELSE x
Candidates == (-(4 * MaxCoord + 4))..(4 * MaxCoord + 4)
\* n/d rounded to the nearest integer (the scales of the model produce no ties)
NearestInt(n, d) == CHOOSE k \in Candidates : 2 * Abs(n - k * d) <= d
\* n/d with its fraction dropped
TruncatedInt(n, d) ==
    CHOOSE k \in Candidates : k * n >= 0 /\ Abs(k) * d <= Abs(n) /\ Abs(n) < (Abs(k) + 1) * d

\* a scaled coordinate as the statement `how` reads it
Converted(how, n, d) == IF how = "nearest" THEN NearestInt(n, d) ELSE TruncatedInt(n, d)
CutRows(how) ==
    {Converted(how, cut.args.scale[1] * cut.args.coordstring[i][2], cut.args.scale[2]) :
        i \in 1..Len(cut.args.coordstring)}
CutCols(how) ==
    {Converted(how, cut.args.scale[1] * cut.args.coordstring[i][1], cut.args.scale[2]) :
        i \in 1..Len(cut.args.coordstring)}
InsidePage(how) ==
    /\ cut.args.coordstring # <<>>
    /\ \A r \in CutRows(how) : 0 <= r /\ r < cut.pageimg[1]
    /\ \A c \in CutCols(how) : 0 <= c /\ c < cut.pageimg[2]
BoxDims(how) ==
    <<MaxOf(CutRows(how)) - MinOf(CutRows(how)) + 1,
      MaxOf(CutCols(how)) - MinOf(CutCols(how)) + 1>>

\* C5: for an empty coordinate string, and for one whose crop has no area,
\* cutout raises nothing, returns an image without pixels and does no further
\* processing, whatever mode, angle and cval are.
C5_CutoutNeverRaisesOnDegenerate ==
    (cut.st = "done" /\ (cut.args.coordstring = <<>>
                            \/ (cut.res.crop # <<>> /\ cut.res.crop[1] * cut.res.crop[2] = 0))) =>
        /\ cut.res.exc = None
        /\ cut.res.shape # <<>> /\ cut.res.shape[1] * cut.res.shape[2] = 0
        /\ cut.res.steps = {} /\ ~cut.res.rotated

\* C8 as stated: mode BOX, angle 0, every point inside the image after scaling
\* and rounding to the nearest integer: the result has maxRow-minRow+1 rows and
\* maxCol-minCol+1 columns of the rounded coordinates.
C8_BoxDimsOfRoundedCoords ==
    (cut.st = "done" /\ cut.args.mode = "BOX" /\ cut.args.angle = Some(0)
        /\ InsidePage("nearest")) =>
            cut.res.exc = None /\ cut.res.shape = BoxDims("nearest")

\* C8 amended: the same with each scaled coordinate truncated toward zero
\* (int(scale * c)) instead of rounded.
C8_BoxDimsOfTruncatedCoords ==
    (cut.st = "done" /\ cut.args.mode = "BOX" /\ cut.args.angle = Some(0)
        /\ InsidePage("truncated")) =>
            cut.res.exc = None /\ cut.res.shape = BoxDims("truncated")

\* a BOX cut at scale 2/3 where truncation and rounding differ (1 -> 0 not 1)
C8_Witness ==
    /\ cut.st = "done" /\ cut.args.mode = "BOX" /\ cut.args.angle = Some(0)
    /\ cut.args.scale = <<2, 3>> /\ cut.args.coordstring = <<<<0, 1>>, <<2, 2>>>>
    /\ InsidePage("truncated")
    /\ cut.res.shape = <<2, 2>>

\* C4: with pad set, in a mode that loads images, every yielded line image is the
\* cutout result padded per side by pad, and the image the line is cut from (and
\* the scale lx / img_width) is the page image as loaded.
C4_PadAppliedToLineImage ==
    (ld.st = "yielded" /\ PadSet(ld.pad) /\ ld.it.line_img # <<>> /\ ~ld.it.cutres.rotated) =>
        /\ ld.it.line_img[1].shape =
                <<ld.it.cutres.shape[1] + PadBefore(ld.pad) + PadAfter(ld.pad),
                  ld.it.cutres.shape[2] + PadBefore(ld.pad) + PadAfter(ld.pad)>>
        /\ ld.it.cut_from = ld.loaded
        /\ ld.it.scale = <<ld.loaded[2], ld.it.sample.img_width>>

====
